---- MODULE Spec2Model ----
(***************************************************************************)
(* Container pairing engine of diffoscope                                  *)
(* (diffoscope/comparators/utils/container.py).                            *)
(*                                                                         *)
(* Python objects live in a heap: a list or an OrderedDict is an object    *)
(* with an identity, so that a pop or a += on one reference is seen        *)
(* through every other reference to the same object.  An OrderedDict is    *)
(* kept as its key sequence together with the container whose get_member   *)
(* produced its values (the value under key k is GetMember(owner, k)).     *)
(***************************************************************************)
EXTENDS Integers, Sequences, FiniteSets, TLC

VARIABLES
    cls,            \* container id -> class named at the construction site
    source,         \* container id -> "File" | "MissingFile" (type of _source)
    facet,          \* container id -> member name -> as_container of that member
    new_file,       \* Config().new_file
    fuzzy,          \* whether fuzzy matching is enabled (a non-zero fuzzy_threshold)
    heap,           \* object id -> [keys, owner]
    my_members,     \* comparisons(): reference held by local my_members
    other_members,  \* comparisons(): reference held by local other_members
    my_nested,      \* comparisons(): my_nested_container
    other_nested,   \* comparisons(): other_nested_container
    fuzzy_q,        \* matches perform_fuzzy_matching has still to yield
    ri,             \* position of the residual loops
    out,            \* pairings yielded so far by the running comparisons()
    pc,             \* position of the comparisons() generator
    reran,          \* whether comparisons() has been run before on these containers
    prev_out,       \* pairings of the previous run
    lk              \* last lookup_file call: its arguments and what it returned

vars == <<cls, source, facet, new_file, fuzzy, heap, my_members, other_members,
          my_nested, other_nested, fuzzy_q, ri, out, pc, reran, prev_out, lk>>

---------------------------------------------------------------------------
(* Bounds of the model *)

\* longest member listing of a container
MaxMembers == 2

\* longest member listing of a nested container
MaxNested == 1

\* longest argument list of lookup_file
MaxDepth == 3

Names == {"a", "b", "c"}

\* lexical order of the member names, as sorted() sees them
Rank(n) == CASE n = "a" -> 1 [] n = "b" -> 2 [] n = "c" -> 3 [] OTHER -> 4

Listings == UNION {[1..k -> Names] : k \in 0..MaxMembers}
NestedListings == UNION {[1..k -> Names] : k \in 0..MaxNested}
OneListings == [1..1 -> Names]

\* "S" is self, "O" is other, "NS"/"NO" the containers of their only members
Cids == {"S", "O", "NS", "NO"}
NONE == "none"

---------------------------------------------------------------------------
(* Sequences as ordered dictionaries *)

RECURSIVE Dedup(_)
\* key order of OrderedDict(pairs): every key at the place of its first insertion
Dedup(s) ==
    IF s = <<>> THEN <<>>
    ELSE LET front == Dedup(SubSeq(s, 1, Len(s) - 1))
             last == s[Len(s)]
         IN IF \E i \in 1..Len(front) : front[i] = last THEN front
            ELSE Append(front, last)

Has(s, k) == \E i \in 1..Len(s) : s[i] = k

\* OrderedDict.pop(k) / popitem on the key sequence
Remove(s, k) == SelectSeq(s, LAMBDA x : x # k)

RECURSIVE Insert(_, _)
Insert(s, x) ==
    IF s = <<>> THEN <<x>>
    ELSE IF Rank(x) < Rank(Head(s)) THEN <<x>> \o s
    ELSE <<Head(s)>> \o Insert(Tail(s), x)

RECURSIVE Sorted(_)
\* sorted(names)
Sorted(s) == IF s = <<>> THEN <<>> ELSE Insert(Sorted(Tail(s)), Head(s))

Put(h, id, val) == [h EXCEPT ![id] = val]

---------------------------------------------------------------------------
(* Artifacts *)

\* a File member of container c under name n
File(c, n) ==
    [cls |-> "File", owner |-> c, key |-> n, other_owner |-> NONE, other_key |-> NONE]

\* MissingFile('/dev/null'): no other_file; owner/key say which mapping slot holds it
MissingFileBare(c, n) ==
    [cls |-> "MissingFile", owner |-> c, key |-> n, other_owner |-> NONE, other_key |-> NONE]

\* MissingFile('/dev/null', other_file)
MissingFile(other_file) ==
    [cls |-> "MissingFile", owner |-> NONE, key |-> NONE,
     other_owner |-> other_file.owner, other_key |-> other_file.key]

\* the KeyError get_member raises, and Python's None, as artifact-shaped values
KeyError ==
    [cls |-> "KeyError", owner |-> NONE, key |-> NONE, other_owner |-> NONE, other_key |-> NONE]
None ==
    [cls |-> "None", owner |-> NONE, key |-> NONE, other_owner |-> NONE, other_key |-> NONE]

NO_COMMENT == "none"
FuzzyComment == "Files similar despite different names"

---------------------------------------------------------------------------
(* Container *)

Counterpart(c) == IF c = "S" THEN "O" ELSE "S"

\* a constructor without the redirection: always the class asked for
ContainerNewAlwaysCls(c, s) == c

\* Container.__new__: a MissingFile source always yields a MissingContainer
ContainerNew(c, s) == IF s = "MissingFile" THEN "MissingContainer" ELSE c

ClassOf(c) == ContainerNew(cls[c], source[c])

\* get_member_names of a concrete container: the listing of its source
ConcreteGetMemberNames(h, c) == h[c].keys

\* MissingContainer.get_member_names: the listing of other_file's container
MissingGetMemberNames(h, c) == ConcreteGetMemberNames(h, Counterpart(c))

GetMemberNames(h, c) ==
    IF ClassOf(c) = "MissingContainer" THEN MissingGetMemberNames(h, c)
    ELSE ConcreteGetMemberNames(h, c)

\* get_member of a concrete container: the member, KeyError when absent
ConcreteGetMember(h, c, n) == IF Has(h[c].keys, n) THEN File(c, n) ELSE KeyError

\* MissingContainer.get_member: a MissingFile whatever the name
MissingGetMember(h, c, n) == MissingFileBare(c, n)

GetMember(h, c, n) ==
    IF ClassOf(c) = "MissingContainer" THEN MissingGetMember(h, c, n)
    ELSE ConcreteGetMember(h, c, n)

\* get_all_members: (name, get_member(name)) for every listed name
GetAllMembers(h, c) ==
    [i \in 1..Len(GetMemberNames(h, c)) |->
        <<GetMemberNames(h, c)[i], GetMember(h, c, GetMemberNames(h, c)[i])>>]

\* get_members handing out the container's own mapping
GetMembersShared(c, fresh) == c

\* the object get_members returns: a new OrderedDict, never the container's own
GetMembersObject(c, fresh) == fresh

\* get_members: OrderedDict(get_all_members())
GetMembers(h, c) ==
    [keys |-> Dedup([i \in 1..Len(GetAllMembers(h, c)) |-> GetAllMembers(h, c)[i][1]]),
     owner |-> c]

\* file.as_container after specialize(file)
AsContainer(f) == IF f.cls = "File" THEN facet[f.owner][f.key] ELSE NONE

\* OneMemberContainer.get_the_only_member
GetTheOnlyMember(h, c) == GetMember(h, c, GetMemberNames(h, c)[1])

\* get_nested_container: None, but for a OneMemberContainer its only member's container
GetNestedContainer(h, c) ==
    IF ClassOf(c) = "OneMemberContainer" THEN AsContainer(GetTheOnlyMember(h, c))
    ELSE NONE

\* the value stored in dictionary object d under key k
ValueOf(h, d, k) == GetMember(h, h[d].owner, k)

---------------------------------------------------------------------------
(* Fuzzy matcher *)

FuzzyThreshold == 2

\* similarity of two members' contents; nothing is similar when matching is off
Score(sd, n1, n2) == IF sd THEN (3 * Rank(n1) + Rank(n2)) % 4 ELSE 0

Candidates(sd, mine, others) ==
    {p \in (1..Len(mine)) \X (1..Len(others)) :
        Score(sd, mine[p[1]], others[p[2]]) >= FuzzyThreshold}

\* best candidate: highest score, ties by self's order, then other's order
Best(sd, mine, others) ==
    CHOOSE p \in Candidates(sd, mine, others) :
        \A q \in Candidates(sd, mine, others) :
            LET sp == Score(sd, mine[p[1]], others[p[2]])
                sq == Score(sd, mine[q[1]], others[q[2]])
            IN \/ sp > sq
               \/ sp = sq /\ p[1] < q[1]
               \/ sp = sq /\ p[1] = q[1] /\ p[2] <= q[2]

RECURSIVE Greedy(_, _, _)
Greedy(sd, mine, others) ==
    IF Candidates(sd, mine, others) = {} THEN <<>>
    ELSE LET p == Best(sd, mine, others)
         IN <<<<mine[p[1]], others[p[2]], Score(sd, mine[p[1]], others[p[2]])>>>>
            \o Greedy(sd, Remove(mine, mine[p[1]]), Remove(others, others[p[2]]))

\* perform_fuzzy_matching(my_members, other_members): (my_name, other_name, score)*;
\* a missing artifact has no content to be similar to
PerformFuzzyMatching(h, m, o) ==
    LET real(d) == SelectSeq(h[d].keys, LAMBDA k : ValueOf(h, d, k).cls = "File")
    IN Greedy(fuzzy, real(m), real(o))

---------------------------------------------------------------------------
(* Initial states: a pair of containers, not yet compared *)

Shape(c, l, nest, nl) == [cls |-> c, keys |-> l, nest |-> nest, nkeys |-> nl]

\* a plain container, or a OneMemberContainer whose only member may be a container
Shapes ==
    {Shape("Container", l, FALSE, <<>>) : l \in Listings}
    \cup {Shape("OneMemberContainer", l, FALSE, <<>>) : l \in OneListings}
    \cup {Shape("OneMemberContainer", l[1], TRUE, l[2]) : l \in OneListings \X NestedListings}

\* the container built on the MissingFile that stands in for x
MissingShape(x) == Shape(x.cls, <<>>, FALSE, <<>>)

\* <<self, other, type of self's source, type of other's source>>
Worlds ==
    {<<w[1], w[2], "File", "File">> : w \in Shapes \X Shapes}
    \cup {<<s, MissingShape(s), "File", "MissingFile">> : s \in Shapes}
    \cup {<<MissingShape(o), o, "MissingFile", "File">> : o \in Shapes}

Refs == Cids \cup {"my", "oth", "nmy", "noth", "rem", "tmp"}

Obj(keys, owner) == [keys |-> keys, owner |-> owner]

NoFacet == [n \in Names |-> NONE]

FacetOf(x, nested) ==
    IF x.nest THEN [n \in Names |-> IF n = x.keys[1] THEN nested ELSE NONE] ELSE NoFacet

InitHeap(s, o) ==
    [r \in Refs |->
        CASE r = "S" -> Obj(s.keys, "S")
          [] r = "O" -> Obj(o.keys, "O")
          [] r = "NS" -> Obj(s.nkeys, "NS")
          [] r = "NO" -> Obj(o.nkeys, "NO")
          [] OTHER -> Obj(<<>>, NONE)]

NoLookup == [root |-> NONE, names |-> <<>>, result |-> None, fetches |-> 0]

Locals0 ==
    /\ my_members = NONE
    /\ other_members = NONE
    /\ my_nested = NONE
    /\ other_nested = NONE
    /\ fuzzy_q = <<>>
    /\ ri = 0
    /\ out = <<>>

Init ==
    /\ \E w \in Worlds :
        /\ cls = [c \in Cids |->
                    CASE c = "S" -> w[1].cls [] c = "O" -> w[2].cls [] OTHER -> "Container"]
        /\ source = [c \in Cids |->
                    CASE c = "S" -> w[3] [] c = "O" -> w[4] [] OTHER -> "File"]
        /\ facet = [c \in Cids |->
                    CASE c = "S" -> FacetOf(w[1], "NS")
                      [] c = "O" -> FacetOf(w[2], "NO")
                      [] OTHER -> NoFacet]
        /\ heap = InitHeap(w[1], w[2])
    /\ new_file \in BOOLEAN
    /\ fuzzy \in BOOLEAN
    /\ Locals0
    /\ pc = "idle"
    /\ reran = FALSE
    /\ prev_out = <<>>
    /\ lk = NoLookup

---------------------------------------------------------------------------
(* comparisons(self, other), one action per stretch of code between yields *)

Pairing(mine, theirs, comment, score, line) ==
    [mine |-> mine, theirs |-> theirs, comment |-> comment, score |-> score, line |-> line]

\* popitem(): the last key
PopItemLast(keys) == keys[Len(keys)]

\* line 120: both sides have a nested container
BothNested(mn, on) == mn # NONE /\ on # NONE

\* line 124 without the return that follows it
NestedPairFallThrough == "unwrap"

\* line 125: the return after the single pairing
NestedPairNext == "done"

\* lines 113-125
Start ==
    /\ pc = "idle"
    /\ LET rm == GetMembersObject("S", "my")
           ro == GetMembersObject("O", "oth")
           h1 == Put(heap, rm, GetMembers(heap, "S"))
           h2 == Put(Put(h1, "rem", Obj(<<>>, NONE)), "tmp", Obj(<<>>, NONE))
           h3 == Put(h2, ro, GetMembers(h2, "O"))
           mn == GetNestedContainer(h3, "S")
           on == GetNestedContainer(h3, "O")
       IN /\ my_members' = rm
          /\ other_members' = ro
          /\ my_nested' = mn
          /\ other_nested' = on
          /\ IF BothNested(mn, on)
             THEN LET mk == PopItemLast(h3[rm].keys)
                      ok == PopItemLast(h3[ro].keys)
                      h4 == Put(h3, rm, Obj(Remove(h3[rm].keys, mk), h3[rm].owner))
                      h5 == Put(h4, ro, Obj(Remove(h4[ro].keys, ok), h4[ro].owner))
                  IN /\ out' = Append(out, Pairing(ValueOf(h3, rm, mk), ValueOf(h3, ro, ok),
                                                   NO_COMMENT, 0, 124))
                     /\ heap' = h5
                     /\ pc' = NestedPairNext
             ELSE /\ out' = out
                  /\ heap' = h3
                  /\ pc' = "unwrap"
    /\ UNCHANGED <<cls, source, facet, new_file, fuzzy, fuzzy_q, ri, reran, prev_out, lk>>

\* no unpacking at all
UnwrapNever(nested) == FALSE

\* lines 127, 129: a side with a nested container is unpacked
UnwrapSide(nested) == nested # NONE

\* lines 126-130
Unwrap ==
    /\ pc = "unwrap"
    /\ LET rm == IF UnwrapSide(my_nested) THEN GetMembersObject(my_nested, "nmy")
                 ELSE my_members
           h1 == IF UnwrapSide(my_nested) THEN Put(heap, rm, GetMembers(heap, my_nested))
                 ELSE heap
           ro == IF UnwrapSide(other_nested) THEN GetMembersObject(other_nested, "noth")
                 ELSE other_members
           h2 == IF UnwrapSide(other_nested) THEN Put(h1, ro, GetMembers(h1, other_nested))
                 ELSE h1
       IN /\ my_members' = rm
          /\ other_members' = ro
          /\ heap' = h2
    /\ pc' = "exact"
    /\ UNCHANGED <<cls, source, facet, new_file, fuzzy, my_nested, other_nested,
                   fuzzy_q, ri, out, reran, prev_out, lk>>

\* popitem() with its default, last=True
ExactPassPickLast(keys) == keys[Len(keys)]

\* line 135: popitem(last=False), the first key
ExactPassPick(keys) == Head(keys)

\* other_members[my_member_name], which removes nothing
OtherKeptAfterExact(keys, name) == keys

\* line 137: other_members.pop(my_member_name)
OtherAfterExact(keys, name) == Remove(keys, name)

\* lines 134-138: one iteration of the while loop that finds the name on the other side
ExactMatch ==
    /\ pc = "exact"
    /\ heap[my_members].keys # <<>>
    /\ LET name == ExactPassPick(heap[my_members].keys)
           h1 == Put(heap, my_members,
                     Obj(Remove(heap[my_members].keys, name), heap[my_members].owner))
       IN /\ Has(h1[other_members].keys, name)
          /\ out' = Append(out, Pairing(ValueOf(heap, my_members, name),
                                        ValueOf(h1, other_members, name), NO_COMMENT, 0, 137))
          /\ heap' = Put(h1, other_members,
                         Obj(OtherAfterExact(h1[other_members].keys, name),
                             h1[other_members].owner))
    /\ UNCHANGED <<cls, source, facet, new_file, fuzzy, my_members, other_members,
                   my_nested, other_nested, fuzzy_q, ri, pc, reran, prev_out, lk>>

\* lines 134-136, 139-140: one iteration that does not; the member is kept as a reminder
ExactMiss ==
    /\ pc = "exact"
    /\ heap[my_members].keys # <<>>
    /\ LET name == ExactPassPick(heap[my_members].keys)
           h1 == Put(heap, my_members,
                     Obj(Remove(heap[my_members].keys, name), heap[my_members].owner))
       IN /\ ~Has(h1[other_members].keys, name)
          /\ heap' = Put(h1, "rem",
                         Obj(Append(Remove(h1["rem"].keys, name), name),
                             heap[my_members].owner))
    /\ UNCHANGED <<cls, source, facet, new_file, fuzzy, my_members, other_members,
                   my_nested, other_nested, fuzzy_q, ri, out, pc, reran, prev_out, lk>>

\* the loop's emptied mapping kept in place of the reminders
MineKeptAfterExact(old, reminders) == old

\* line 142: my_members = my_reminders
MineAfterExact(old, reminders) == reminders

\* lines 142-143: the loop is over; the reminders go to the fuzzy matcher
FuzzyStart ==
    /\ pc = "exact"
    /\ heap[my_members].keys = <<>>
    /\ my_members' = MineAfterExact(my_members, "rem")
    /\ fuzzy_q' = PerformFuzzyMatching(heap, my_members', other_members)
    /\ pc' = "fuzzy"
    /\ UNCHANGED <<cls, source, facet, new_file, fuzzy, heap, other_members,
                   my_nested, other_nested, ri, out, reran, prev_out, lk>>

\* lines 143-146: one match of the fuzzy matcher
FuzzyStep ==
    /\ pc = "fuzzy"
    /\ fuzzy_q # <<>>
    /\ LET m == Head(fuzzy_q)
           h1 == Put(heap, my_members,
                     Obj(Remove(heap[my_members].keys, m[1]), heap[my_members].owner))
           h2 == Put(h1, other_members,
                     Obj(Remove(h1[other_members].keys, m[2]), h1[other_members].owner))
       IN /\ Has(heap[my_members].keys, m[1])
          /\ Has(h1[other_members].keys, m[2])
          /\ out' = Append(out, Pairing(ValueOf(heap, my_members, m[1]),
                                        ValueOf(h1, other_members, m[2]),
                                        FuzzyComment, m[3], 145))
          /\ heap' = h2
    /\ fuzzy_q' = Tail(fuzzy_q)
    /\ UNCHANGED <<cls, source, facet, new_file, fuzzy, my_members, other_members,
                   my_nested, other_nested, ri, pc, reran, prev_out, lk>>

\* a residual pass that does not look at the flag
ResidualAlways(flag) == TRUE

\* line 148: if Config().new_file
ResidualEnabled(flag) == flag

\* line 148, reached when the fuzzy matcher is exhausted
FuzzyEnd ==
    /\ pc = "fuzzy"
    /\ fuzzy_q = <<>>
    /\ pc' = IF ResidualEnabled(new_file) THEN "resid" ELSE "done"
    /\ ri' = 1
    /\ UNCHANGED <<cls, source, facet, new_file, fuzzy, heap, my_members, other_members,
                   my_nested, other_nested, fuzzy_q, out, reran, prev_out, lk>>

\* lines 149-151: a member left on self, with a MissingFile as theirs
ResidualMine ==
    /\ pc = "resid"
    /\ ri <= Len(heap[my_members].keys)
    /\ LET my_member == ValueOf(heap, my_members, heap[my_members].keys[ri])
       IN out' = Append(out, Pairing(my_member, MissingFile(my_member), NO_COMMENT, 0, 150))
    /\ ri' = ri + 1
    /\ UNCHANGED <<cls, source, facet, new_file, fuzzy, heap, my_members, other_members,
                   my_nested, other_nested, fuzzy_q, pc, reran, prev_out, lk>>

\* lines 153-155: a member left on other, with a MissingFile as ours
ResidualOther ==
    /\ pc = "resid"
    /\ ri > Len(heap[my_members].keys)
    /\ ri - Len(heap[my_members].keys) <= Len(heap[other_members].keys)
    /\ LET other_member ==
               ValueOf(heap, other_members,
                       heap[other_members].keys[ri - Len(heap[my_members].keys)])
       IN out' = Append(out, Pairing(MissingFile(other_member), other_member,
                                     NO_COMMENT, 0, 154))
    /\ ri' = ri + 1
    /\ UNCHANGED <<cls, source, facet, new_file, fuzzy, heap, my_members, other_members,
                   my_nested, other_nested, fuzzy_q, pc, reran, prev_out, lk>>

\* the generator is exhausted
Finish ==
    /\ pc = "resid"
    /\ ri > Len(heap[my_members].keys) + Len(heap[other_members].keys)
    /\ pc' = "done"
    /\ UNCHANGED <<cls, source, facet, new_file, fuzzy, heap, my_members, other_members,
                   my_nested, other_nested, fuzzy_q, ri, out, reran, prev_out, lk>>

\* compare() is called again on the same two containers
Rerun ==
    /\ pc = "done"
    /\ reran' = TRUE
    /\ prev_out' = out
    /\ out' = <<>>
    /\ my_members' = NONE
    /\ other_members' = NONE
    /\ my_nested' = NONE
    /\ other_nested' = NONE
    /\ fuzzy_q' = <<>>
    /\ ri' = 0
    /\ heap' = [r \in Refs |-> IF r \in Cids THEN heap[r] ELSE Obj(<<>>, NONE)]
    /\ pc' = "idle"
    /\ UNCHANGED <<cls, source, facet, new_file, fuzzy, lk>>

---------------------------------------------------------------------------
(* get_member_names_nested *)

\* the list object get_member_names hands out: a list of its own, as the
\* implementations that build their listing on every call do
GetMemberNamesObject(c, fresh) == fresh

\* '[%s] %s' % (nested_container.source.name, member)
Prefixed(source_name, member) == "[" \o source_name \o "] " \o member

\* lines 100-107
NamesNested(h, c) ==
    LET nested == GetNestedContainer(h, c)
        only == GetTheOnlyMember(h, c)
        inner == Sorted(GetMemberNames(h, nested))
    IN IF nested # NONE
       THEN [i \in 1..Len(inner) |-> Prefixed(only.key, inner[i])]
       ELSE <<>>

CallGetMemberNamesNested(c) ==
    /\ pc \in {"idle", "done"}
    /\ LET r == GetMemberNamesObject(c, "tmp")
           h1 == Put(heap, r, Obj(GetMemberNames(heap, c), c))
       IN heap' = Put(h1, r, Obj(h1[r].keys \o NamesNested(h1, c), c))
    /\ UNCHANGED <<cls, source, facet, new_file, fuzzy, my_members, other_members,
                   my_nested, other_nested, fuzzy_q, ri, out, pc, reran, prev_out, lk>>

Next ==
    \/ Start
    \/ Unwrap
    \/ ExactMatch
    \/ ExactMiss
    \/ FuzzyStart
    \/ FuzzyStep
    \/ FuzzyEnd
    \/ ResidualMine
    \/ ResidualOther
    \/ Finish
    \/ Rerun
    \/ \E c \in {"S", "O"} : CallGetMemberNamesNested(c)

Spec == Init /\ [][Next]_vars

---------------------------------------------------------------------------
(* lookup_file *)

\* a lookup that lets the KeyError through
KeyErrorPropagates == KeyError

\* lines 72-73: except KeyError: return None
OnKeyError == None

RECURSIVE LookupFile(_, _, _)
\* lines 62-84; fetches counts the get_member calls made
LookupFile(h, c, names) ==
    LET name == Head(names)
        remainings == Tail(names)
        file == GetMember(h, c, name)
        container == AsContainer(file)
    IN IF file = KeyError THEN [result |-> OnKeyError, fetches |-> 1]
       ELSE IF remainings = <<>> THEN [result |-> file, fetches |-> 1]
       ELSE IF container = NONE THEN [result |-> None, fetches |-> 1]
       ELSE LET r == LookupFile(h, container, remainings)
            IN [result |-> r.result, fetches |-> r.fetches + 1]

\* argument lists of lookup_file: at least one name
LookupArgs == UNION {[1..k -> Names] : k \in 1..MaxDepth}

\* listings of the lookup tree: the first k names
TreeListings == {SubSeq(<<"a", "b", "c">>, 1, k) : k \in 0..MaxMembers}

\* a tree S -> NS -> NO of containers, and O the container of the MissingFile for S
LookupInit ==
    /\ cls = [c \in Cids |-> "Container"]
    /\ source = [c \in Cids |-> IF c = "O" THEN "MissingFile" ELSE "File"]
    /\ \E cs \in Names \cup {NONE}, cn \in Names \cup {NONE} :
        facet = [c \in Cids |->
                    CASE c = "S" -> [n \in Names |-> IF n = cs THEN "NS" ELSE NONE]
                      [] c = "NS" -> [n \in Names |-> IF n = cn THEN "NO" ELSE NONE]
                      [] OTHER -> NoFacet]
    /\ \E ls \in TreeListings, ln \in TreeListings, lo \in TreeListings :
        heap = [r \in Refs |->
                    CASE r = "S" -> Obj(ls, "S")
                      [] r = "NS" -> Obj(ln, "NS")
                      [] r = "NO" -> Obj(lo, "NO")
                      [] OTHER -> Obj(<<>>, NONE)]
    /\ new_file = FALSE
    /\ fuzzy = FALSE
    /\ Locals0
    /\ pc = "lookup"
    /\ reran = FALSE
    /\ prev_out = <<>>
    /\ lk = NoLookup

\* container.lookup_file(*names)
Lookup(root, names) ==
    /\ pc = "lookup"
    /\ lk = NoLookup
    /\ LET r == LookupFile(heap, root, names)
       IN lk' = [root |-> root, names |-> names, result |-> r.result, fetches |-> r.fetches]
    /\ UNCHANGED <<cls, source, facet, new_file, fuzzy, heap, my_members, other_members,
                   my_nested, other_nested, fuzzy_q, ri, out, pc, reran, prev_out>>

LookupNext == \E root \in {"S", "O"}, names \in LookupArgs : Lookup(root, names)

LookupSpec == LookupInit /\ [][LookupNext]_vars

---------------------------------------------------------------------------
(* Vocabulary of the properties *)

NestedOf(c) == GetNestedContainer(heap, c)

BothNest == NestedOf("S") # NONE /\ NestedOf("O") # NONE

\* the container whose mapping the passes work on, for self and for other
EffS == IF NestedOf("S") # NONE /\ NestedOf("O") = NONE THEN NestedOf("S") ELSE "S"
EffO == IF NestedOf("O") # NONE /\ NestedOf("S") = NONE THEN NestedOf("O") ELSE "O"

\* the member names of a container, each once, in listing order
Listing(c) == Dedup(GetMemberNames(heap, c))

Pos(s, k) == CHOOSE i \in 1..Len(s) : s[i] = k

Idx == 1..Len(out)

ResidualLines == {150, 154}

---------------------------------------------------------------------------
(* C1 *)

\* C1 as stated: with new_file set, a finished comparisons() has emitted every
\* member name of self and every member name of other in exactly one pairing.
C1_EachNameExactlyOnce ==
    (pc = "done" /\ new_file) =>
        /\ \A n \in Names : Has(GetMemberNames(heap, "S"), n) =>
              Cardinality({i \in Idx : out[i].mine.owner # NONE /\ out[i].mine.key = n}) = 1
        /\ \A n \in Names : Has(GetMemberNames(heap, "O"), n) =>
              Cardinality({i \in Idx : out[i].theirs.owner # NONE /\ out[i].theirs.key = n}) = 1

\* C1 amended: with new_file set, a finished comparisons() has emitted every
\* member of the two mappings it works on in exactly one pairing, and no other
\* member: the mappings are self's and other's own when neither or both have a
\* nested container, and the nested container's mapping in place of the
\* wrapper's when exactly one side has one.
C1_EachEffectiveMemberExactlyOnce ==
    (pc = "done" /\ new_file) =>
        /\ \A n \in Names : Has(Listing(EffS), n) =>
              Cardinality({i \in Idx : out[i].mine = GetMember(heap, EffS, n)}) = 1
        /\ \A n \in Names : Has(Listing(EffO), n) =>
              Cardinality({i \in Idx : out[i].theirs = GetMember(heap, EffO, n)}) = 1
        /\ \A i \in Idx :
              /\ out[i].mine.owner # NONE =>
                    out[i].mine.owner = EffS /\ Has(Listing(EffS), out[i].mine.key)
              /\ out[i].theirs.owner # NONE =>
                    out[i].theirs.owner = EffO /\ Has(Listing(EffO), out[i].theirs.key)

\* only self nests; the member of its nested container was paired by name, the
\* wrapper's own member is in no pairing, and a member only other has went to
\* the residual pass
C1_Witness ==
    /\ pc = "done" /\ new_file
    /\ NestedOf("S") # NONE /\ NestedOf("O") = NONE
    /\ \E i \in Idx : out[i].line = 137
    /\ \E i \in Idx : out[i].line = 154
    /\ \A i \in Idx : out[i].mine.key # GetTheOnlyMember(heap, "S").key

---------------------------------------------------------------------------
(* C2 *)

\* C2: when both sides have a nested container, comparisons() emits exactly one
\* pairing and stops; its sides are the only members of self and of other, the
\* artifacts whose containers are the two nested containers, whatever their
\* names; the comment is empty; no other pass runs.
C2_BothNestedSinglePairing ==
    (BothNest /\ pc # "idle") =>
        /\ pc = "done"
        /\ Len(out) = 1
        /\ out[1].line = 124
        /\ out[1].comment = NO_COMMENT
        /\ out[1].mine = GetTheOnlyMember(heap, "S")
        /\ AsContainer(out[1].mine) = NestedOf("S")
        /\ out[1].theirs = GetTheOnlyMember(heap, "O")
        /\ AsContainer(out[1].theirs) = NestedOf("O")

\* both nest, under different member names, and the run is over
C2_Witness ==
    /\ BothNest /\ pc = "done"
    /\ Len(out) = 1
    /\ out[1].mine.key # out[1].theirs.key

---------------------------------------------------------------------------
(* C3 *)

\* what the fuzzy matcher is to return: its result on the members of either
\* side whose name the other side lacks
ExpectedFuzzy ==
    Greedy(fuzzy,
           SelectSeq(Listing(EffS), LAMBDA n :
               ~Has(Listing(EffO), n) /\ GetMember(heap, EffS, n).cls = "File"),
           SelectSeq(Listing(EffO), LAMBDA n :
               ~Has(Listing(EffS), n) /\ GetMember(heap, EffO, n).cls = "File"))

FuzzyEmitted ==
    LET f == SelectSeq(out, LAMBDA e : e.line = 145)
    IN [i \in 1..Len(f) |-> <<f[i].mine.key, f[i].theirs.key, f[i].score>>]

\* C3: the pairings come in a stable order: exact-name pairings first, in
\* self's listing order; then the fuzzy pairings in the matcher's order; then
\* the self-only residuals in self's listing order; then the other-only
\* residuals in other's listing order; a second run on the same containers
\* yields the same pairings in the same order.
C3_OrderStable ==
    /\ \A i, j \in Idx : i < j =>
          /\ out[i].line <= out[j].line
          /\ (out[i].line \in {137, 150} /\ out[j].line = out[i].line) =>
                Pos(Listing(EffS), out[i].mine.key) < Pos(Listing(EffS), out[j].mine.key)
          /\ (out[i].line = 154 /\ out[j].line = 154) =>
                Pos(Listing(EffO), out[i].theirs.key) < Pos(Listing(EffO), out[j].theirs.key)
    /\ (pc \in {"fuzzy", "resid", "done"} /\ ~BothNest) =>
          FuzzyEmitted \o fuzzy_q = ExpectedFuzzy
    /\ (reran /\ pc = "done") => out = prev_out

\* a second run is over; the fuzzy matcher paired self's second member, which
\* scores higher than the first, and the first went to the residual pass
C3_Witness ==
    /\ reran /\ pc = "done"
    /\ Len(out) = 2
    /\ out[1].line = 145 /\ out[2].line = 150
    /\ Pos(Listing(EffS), out[2].mine.key) < Pos(Listing(EffS), out[1].mine.key)

---------------------------------------------------------------------------
(* C4 *)

\* C4: no member of either container is in two pairings, and while the fuzzy
\* pass runs, neither the mappings it was given nor its matches hold a member
\* that an exact-name pairing has emitted.
C4_NoMemberPairedTwice ==
    /\ \A i, j \in Idx : i # j =>
          /\ out[i].mine.owner # NONE => out[i].mine # out[j].mine
          /\ out[i].theirs.owner # NONE => out[i].theirs # out[j].theirs
    /\ pc = "fuzzy" =>
          \A i \in Idx : out[i].line = 137 =>
              /\ ~Has(heap[my_members].keys, out[i].mine.key)
              /\ ~Has(heap[other_members].keys, out[i].theirs.key)
              /\ \A q \in 1..Len(fuzzy_q) :
                    fuzzy_q[q][1] # out[i].mine.key /\ fuzzy_q[q][2] # out[i].theirs.key

\* the fuzzy pass has a match to yield after an exact-name pairing
C4_Witness ==
    /\ pc = "fuzzy"
    /\ fuzzy_q # <<>>
    /\ \E i \in Idx : out[i].line = 137

---------------------------------------------------------------------------
(* C5 *)

\* members of a side that no exact-name or fuzzy pairing has emitted
UnmatchedS ==
    {GetMember(heap, EffS, n) : n \in {m \in Names : Has(Listing(EffS), m)}}
    \ {out[i].mine : i \in {j \in Idx : out[j].line \in {137, 145}}}
UnmatchedO ==
    {GetMember(heap, EffO, n) : n \in {m \in Names : Has(Listing(EffO), m)}}
    \ {out[i].theirs : i \in {j \in Idx : out[j].line \in {137, 145}}}

\* C5: residual pairings exist only with new_file set.  With it, every member
\* left unmatched on self is paired once with a MissingFile as theirs and every
\* member left unmatched on other once with a MissingFile as ours, the
\* MissingFile referencing that member; without it, an unmatched member is in
\* no pairing and comparisons() constructs no MissingFile.
C5_ResidualOnlyUnderFlag ==
    /\ \A i \in Idx :
          /\ out[i].line = 150 =>
                new_file /\ out[i].mine.owner # NONE /\ out[i].theirs = MissingFile(out[i].mine)
          /\ out[i].line = 154 =>
                new_file /\ out[i].theirs.owner # NONE /\ out[i].mine = MissingFile(out[i].theirs)
          /\ out[i].line \notin ResidualLines =>
                out[i].mine.owner # NONE /\ out[i].theirs.owner # NONE
    /\ (pc = "done" /\ ~BothNest) =>
          /\ \A m \in UnmatchedS :
                Cardinality({i \in Idx : out[i].mine = m}) = (IF new_file THEN 1 ELSE 0)
          /\ \A m \in UnmatchedO :
                Cardinality({i \in Idx : out[i].theirs = m}) = (IF new_file THEN 1 ELSE 0)

\* the flag is set and the run ended with a residual pairing of either kind
C5_Witness ==
    /\ pc = "done" /\ new_file
    /\ \E i \in Idx : out[i].line = 150 /\ out[i].theirs.cls = "MissingFile"
    /\ \E i \in Idx : out[i].line = 154 /\ out[i].mine.cls = "MissingFile"

---------------------------------------------------------------------------
(* C6 *)

\* C6: when exactly one side has a nested container, the passes start from the
\* nested container's mapping on that side and from the other side's own
\* mapping, and only members of these two mappings are paired: the wrapper's
\* own member is in no pairing.
C6_OneSidedUnwrap ==
    /\ (NestedOf("S") # NONE /\ NestedOf("O") = NONE /\ pc \notin {"idle", "unwrap"}) =>
          /\ (pc = "exact" /\ out = <<>> /\ heap["rem"].keys = <<>>) =>
                /\ heap[my_members] = GetMembers(heap, NestedOf("S"))
                /\ heap[other_members] = GetMembers(heap, "O")
          /\ \A i \in Idx : out[i].mine.owner \in {NestedOf("S"), NONE}
                         /\ out[i].theirs.owner \in {"O", NONE}
    /\ (NestedOf("O") # NONE /\ NestedOf("S") = NONE /\ pc \notin {"idle", "unwrap"}) =>
          /\ (pc = "exact" /\ out = <<>> /\ heap["rem"].keys = <<>>) =>
                /\ heap[my_members] = GetMembers(heap, "S")
                /\ heap[other_members] = GetMembers(heap, NestedOf("O"))
          /\ \A i \in Idx : out[i].mine.owner \in {"S", NONE}
                         /\ out[i].theirs.owner \in {NestedOf("O"), NONE}

\* only self nests, and a member of its nested container was paired by name
\* with a member of other, under a name that is not the wrapper's member's
C6_Witness ==
    /\ pc = "done"
    /\ NestedOf("S") # NONE /\ NestedOf("O") = NONE
    /\ \E i \in Idx : /\ out[i].line = 137
                      /\ out[i].mine.owner = NestedOf("S")
                      /\ out[i].mine.key # GetTheOnlyMember(heap, "S").key

---------------------------------------------------------------------------
(* C7 *)

\* C7 as stated: no container, one built on a MissingFile included, returns a
\* MissingFile from get_member or get_all_members, and a MissingFile is in a
\* pairing only when the residual pass made it.
C7_NoMissingInListing ==
    /\ \A c \in Cids :
          /\ \A n \in Names : GetMember(heap, c, n).cls # "MissingFile"
          /\ \A i \in 1..Len(GetAllMembers(heap, c)) :
                GetAllMembers(heap, c)[i][2].cls # "MissingFile"
    /\ \A i \in Idx : out[i].line \notin ResidualLines =>
          out[i].mine.cls # "MissingFile" /\ out[i].theirs.cls # "MissingFile"

\* C7 amended: a container built on a real source returns no MissingFile; a
\* container built on a MissingFile is a MissingContainer, which lists the
\* member names of its counterpart and returns a MissingFile without other_file
\* for every name; a MissingFile in a pairing other than a residual one is a
\* member of such a container.
C7_MissingOnlyFromMissingSource ==
    /\ \A c \in Cids :
          /\ source[c] = "File" =>
                /\ \A n \in Names : GetMember(heap, c, n).cls # "MissingFile"
                /\ \A i \in 1..Len(GetAllMembers(heap, c)) :
                      GetAllMembers(heap, c)[i][2].cls = "File"
          /\ source[c] = "MissingFile" =>
                /\ GetMemberNames(heap, c) = GetMemberNames(heap, Counterpart(c))
                /\ \A n \in Names : GetMember(heap, c, n) = MissingFileBare(c, n)
    /\ \A i \in Idx : out[i].line \notin ResidualLines =>
          /\ out[i].mine.cls = "MissingFile" =>
                out[i].mine.owner \in Cids /\ source[out[i].mine.owner] = "MissingFile"
          /\ out[i].theirs.cls = "MissingFile" =>
                out[i].theirs.owner \in Cids /\ source[out[i].theirs.owner] = "MissingFile"

\* other is built on a MissingFile and its member was paired by name
C7_Witness ==
    /\ pc = "done"
    /\ source["O"] = "MissingFile"
    /\ \E i \in Idx : /\ out[i].line = 137
                      /\ out[i].mine.cls = "File"
                      /\ out[i].theirs = MissingFileBare("O", out[i].mine.key)

---------------------------------------------------------------------------
(* C8 *)

\* C8 as stated: a container compared with the container of the MissingFile
\* that stands in for it yields, for every member name in listing order, the
\* pairing of that member with a MissingFile, and nothing else; likewise with
\* the sides swapped.
C8_RemovalReportedPerMember ==
    /\ (pc = "done" /\ source["O"] = "MissingFile") =>
          /\ Len(out) = Len(Listing("S"))
          /\ \A i \in Idx : /\ out[i].mine = File("S", Listing("S")[i])
                            /\ out[i].theirs.cls = "MissingFile"
    /\ (pc = "done" /\ source["S"] = "MissingFile") =>
          /\ Len(out) = Len(Listing("O"))
          /\ \A i \in Idx : /\ out[i].theirs = File("O", Listing("O")[i])
                            /\ out[i].mine.cls = "MissingFile"

---------------------------------------------------------------------------
(* C9 *)

---------------------------------------------------------------------------
(* C10 *)

RECURSIVE ContAt(_, _, _)
\* the container names[i] is to be fetched from: the container of the artifact
\* that names[1..i-1] lead to, NONE when they lead to no container
ContAt(root, names, i) ==
    IF i = 1 THEN root
    ELSE LET p == ContAt(root, names, i - 1)
         IN IF p = NONE THEN NONE
            ELSE IF GetMember(heap, p, names[i - 1]) = KeyError THEN NONE
            ELSE AsContainer(GetMember(heap, p, names[i - 1]))

\* the positions at which the walk cannot go on: no container to fetch from,
\* or get_member raises KeyError
FailAt(root, names) ==
    {i \in 1..Len(names) :
        \/ ContAt(root, names, i) = NONE
        \/ GetMember(heap, ContAt(root, names, i), names[i]) = KeyError}

Min(S) == CHOOSE x \in S : \A y \in S : x <= y

\* C10: lookup_file(n1, ..., nk) returns the artifact the names lead to when
\* every fetch succeeds and every artifact before the last is a container;
\* otherwise it returns None, never the KeyError, having made no fetch beyond
\* the first position that fails; it never makes more than k fetches.
C10_LookupFile ==
    lk.root # NONE =>
        LET k == Len(lk.names)
            bad == FailAt(lk.root, lk.names)
        IN /\ lk.fetches <= k
           /\ lk.result # KeyError
           /\ bad = {} =>
                /\ lk.result = GetMember(heap, ContAt(lk.root, lk.names, k), lk.names[k])
                /\ lk.result.cls \in {"File", "MissingFile"}
                /\ lk.fetches = k
           /\ bad # {} =>
                /\ lk.result = None
                /\ lk.fetches <= Min(bad)
                /\ lk.fetches >= Min(bad) - 1

\* a three-name lookup went through two containers and found the member
C10_Witness ==
    /\ lk.root = "S"
    /\ Len(lk.names) = 3
    /\ lk.result.cls = "File"
    /\ lk.fetches = 3

====
